---------------------------- MODULE Spec2Model ----------------------------
(***************************************************************************)
(* Model of costco-server.js: the HTTP facade (GET/POST /api/costco and    *)
(* POST /api/config), the process-wide defaults globalConfig and the       *)
(* three-call workflow runWorkflow (geocode, warehouse locator, search).   *)
(*                                                                         *)
(* JavaScript values are records [t, s, n]: t is the type tag, s the text  *)
(* of a string (a sequence of pieces, so that concatenation is \o and the  *)
(* empty string is << >>) and n the value of a number.                     *)
(***************************************************************************)
EXTENDS Integers, Sequences, FiniteSets, TLC

VARIABLES
    globalConfig,   \* the process-wide defaults (let globalConfig)
    cfgPc,          \* position of the running /api/config handler, 0 = none
    cfgBody,        \* req.body of the running /api/config handler
    cfgBefore,      \* globalConfig when the last /api/config handler started
    cfgResp,        \* the responses sent by /api/config so far (last one kept)
    req,            \* the search requests, one record per slot
    probe           \* the merge functions applied to one set of supplied values

vars == <<globalConfig, cfgPc, cfgBody, cfgBefore, cfgResp, req, probe>>

-----------------------------------------------------------------------------
(* Bounds of the model *)

NumReqs == 2        \* search requests in flight at once
MaxDocs == 2        \* documents the search backend returns at most
MaxLimit == 2       \* largest limit a request supplies as a number
MaxTextLen == 2     \* longest limit text of a query string

-----------------------------------------------------------------------------
(* JavaScript values *)

Undef == [t |-> "undefined", s |-> << >>, n |-> 0]
Null == [t |-> "null", s |-> << >>, n |-> 0]
NaN == [t |-> "NaN", s |-> << >>, n |-> 0]
Str(rope) == [t |-> "string", s |-> rope, n |-> 0]
Num(k) == [t |-> "number", s |-> << >>, n |-> k]

\* ToBoolean: undefined, null, NaN, 0 and "" are falsy
Truthy(v) ==
    CASE v.t = "string" -> v.s # << >>
      [] v.t = "number" -> v.n # 0
      [] OTHER -> FALSE

\* a || b
JsOr(a, b) == IF Truthy(a) THEN a ELSE b

Digits == <<"0", "1", "2", "3", "4", "5", "6", "7", "8", "9">>

IsDigit(c) == \E i \in 1..10 : Digits[i] = c

DigitVal(c) == (CHOOSE i \in 1..10 : Digits[i] = c) - 1

\* String(k) for an integer k >= 0, one character per piece
RECURSIVE Decimal(_)
Decimal(k) ==
    IF k < 10 THEN <<Digits[k + 1]>>
    ELSE Decimal(k \div 10) \o <<Digits[(k % 10) + 1]>>

\* the value of the longest prefix of digits of text, acc being the value so far
RECURSIVE DigitRun(_, _)
DigitRun(text, acc) ==
    IF text # << >> /\ IsDigit(Head(text))
    THEN DigitRun(Tail(text), 10 * acc + DigitVal(Head(text)))
    ELSE acc

\* parseInt(text, 10) of a string given one character per piece
ParseInt(text) ==
    LET neg == text # << >> /\ Head(text) = "-"
        body == IF text # << >> /\ Head(text) \in {"-", "+"} THEN Tail(text) ELSE text
    IN  IF body = << >> \/ ~IsDigit(Head(body)) THEN NaN
        ELSE Num(IF neg THEN 0 - DigitRun(body, 0) ELSE DigitRun(body, 0))

\* `${v}` of a string or of a number >= 0
Template(v) ==
    CASE v.t = "string" -> v.s
      [] v.t = "number" -> Decimal(v.n)
      [] OTHER -> <<v.t>>

-----------------------------------------------------------------------------
(* The defaults and the merge of a request with them *)

DefaultLimit == 24
DefaultRows == 24

Fields == {"keyword", "zipCode", "limit", "warehouseId"}

InitConfig ==
    [keyword |-> Str(<<"juice">>), zipCode |-> Str(<<"90210">>),
     limit |-> Num(DefaultLimit), warehouseId |-> Null]

\* the merge of GET /api/costco, the default warehouseId forgotten
MergeGetNoDefaultWarehouse(query, cfg) ==
    [keyword |-> JsOr(query.keyword, cfg.keyword),
     zipCode |-> JsOr(query.zipCode, cfg.zipCode),
     limit |-> IF Truthy(query.limit) THEN ParseInt(query.limit.s) ELSE cfg.limit,
     warehouseId |-> query.warehouseId]

\* GET /api/costco: req.query merged with the defaults
MergeGet(query, cfg) ==
    [keyword |-> JsOr(query.keyword, cfg.keyword),
     zipCode |-> JsOr(query.zipCode, cfg.zipCode),
     limit |-> IF Truthy(query.limit) THEN ParseInt(query.limit.s) ELSE cfg.limit,
     warehouseId |-> JsOr(query.warehouseId, cfg.warehouseId)]

\* POST /api/costco: req.body merged with the defaults
MergePost(body, cfg) ==
    [keyword |-> JsOr(body.keyword, cfg.keyword),
     zipCode |-> JsOr(body.zipCode, cfg.zipCode),
     limit |-> JsOr(body.limit, cfg.limit),
     warehouseId |-> JsOr(body.warehouseId, cfg.warehouseId)]

\* the write of POST /api/config without its if
ConfigWriteUnconditional(cfg, body, f) == [cfg EXCEPT ![f] = body[f]]

\* one conditional write of POST /api/config: if (req.body.f) globalConfig.f = req.body.f
ConfigWrite(cfg, body, f) ==
    IF Truthy(body[f]) THEN [cfg EXCEPT ![f] = body[f]] ELSE cfg

\* the order in which POST /api/config writes the fields
FieldOrder == <<"keyword", "zipCode", "limit", "warehouseId">>

\* res.json({success: true, config: globalConfig})
ConfigResponse(cfg) == [success |-> TRUE, config |-> cfg]

\* an /api/config handler that yields between its writes
EventLoopInterleaves == TRUE

\* Handlers are synchronous between awaits: while the /api/config handler is
\* between two of its statements no other handler or continuation runs.
EventLoopIdle == cfgPc = 0

-----------------------------------------------------------------------------
(* runWorkflow *)

Duration == "<seconds>s"

NoWarehouse == [id |-> Undef, name |-> Undef, city |-> Undef, state |-> Undef]

NoError == [message |-> "", axios |-> FALSE, hasResponse |-> FALSE, data |-> ""]

\* the warehouse of an explicitly given id: no lookup
ExplicitWarehouse(warehouseId) ==
    [id |-> warehouseId,
     name |-> Str(<<"Store ">> \o Template(warehouseId)),
     city |-> Str(<<"Unknown">>),
     state |-> Str(<<"Unknown">>)]

\* the warehouse record of the first warehouse the locator returned
LocatedWarehouse(w) ==
    [id |-> w.warehouseId,
     name |-> w.name[1].value,
     city |-> w.address.city,
     state |-> w.address.territory]

GeocodeCall(inputs) == [api |-> "geocode", params |-> [q |-> inputs.zipCode]]

LocatorCall(coord) ==
    [api |-> "locator",
     params |-> [latitude |-> coord.latitude, longitude |-> coord.longitude,
                 limit |-> 1, openingDate |-> "<today>"]]

SearchCall(inputs, warehouse) ==
    [api |-> "search",
     params |-> [expoption |-> "lucidworks",
                 q |-> inputs.keyword,
                 locale |-> "en-US",
                 start |-> 0,
                 rows |-> JsOr(inputs.limit, Num(DefaultRows)),
                 whloc |-> Str(Template(warehouse.id) \o <<"-wh">>),
                 loc |-> Str(Template(warehouse.id) \o <<"-wh">>),
                 fq |-> "item_program_eligibility:InWarehouse"]]

\* one document of the search response mapped to an item
ProjectItem(d) ==
    [name |-> d.item_product_name,
     price |-> d.item_location_pricing_salePrice,
     availability |-> d.item_location_availability,
     deliveryOptions |-> d.item_program_eligibility,
     partNumber |-> d.item_partnumber]

\* the documents mapped in reverse order
MapDocsReversed(docs) ==
    [i \in 1..Len(docs) |-> ProjectItem(docs[Len(docs) + 1 - i])]

\* response.data.response.docs.map(...)
MapDocs(docs) == [i \in 1..Len(docs) |-> ProjectItem(docs[i])]

\* the error axios raises for a reply that is not a 2xx answer
AxiosError(reply) ==
    IF reply.kind = "http"
    THEN [message |-> "Request failed with status code", axios |-> TRUE,
          hasResponse |-> TRUE, data |-> reply.body]
    ELSE [message |-> "timeout of 10000ms exceeded", axios |-> TRUE,
          hasResponse |-> FALSE, data |-> ""]

PlainError(message) ==
    [message |-> message, axios |-> FALSE, hasResponse |-> FALSE, data |-> ""]

ZipNotFound == PlainError("Zip code not found")

NoWarehousesFound == PlainError("No warehouses found")

\* the TypeError of reading a property of undefined
TypeError == PlainError("Cannot read properties of undefined")

\* res.json({success: true, duration, outputs})
SuccessResponse(warehouse, items) ==
    [status |-> 200,
     body |-> [success |-> TRUE, duration |-> Duration,
               outputs |-> [warehouse |-> warehouse, items |-> items]]]

\* res.status(500).json({success: false, error, details, duration}); JSON drops
\* a key whose value is undefined
FailureResponse(err) ==
    [status |-> 500,
     body |-> IF err.axios /\ err.hasResponse
              THEN [success |-> FALSE, error |-> err.message,
                    details |-> err.data, duration |-> Duration]
              ELSE [success |-> FALSE, error |-> err.message,
                    duration |-> Duration]]

-----------------------------------------------------------------------------
(* One search request: the handler and the continuations of runWorkflow *)

IdleReq ==
    [pc |-> "idle", inputs |-> InitConfig, calls |-> << >>, replies |-> << >>,
     warehouse |-> NoWarehouse, error |-> NoError, responses |-> << >>,
     torn |-> FALSE, seenCfg |-> InitConfig]

\* runWorkflow without the shortcut of the explicit id
StartWorkflowNoShortcut(inputs) ==
    [IdleReq EXCEPT !.pc = "geocode", !.inputs = inputs,
                    !.calls = <<GeocodeCall(inputs)>>]

\* runWorkflow up to its first network call: the explicit id skips the lookup
StartWorkflow(inputs) ==
    IF Truthy(inputs.warehouseId)
    THEN [IdleReq EXCEPT !.pc = "search", !.inputs = inputs,
                         !.warehouse = ExplicitWarehouse(inputs.warehouseId),
                         !.calls = <<SearchCall(inputs,
                                        ExplicitWarehouse(inputs.warehouseId))>>]
    ELSE [IdleReq EXCEPT !.pc = "geocode", !.inputs = inputs,
                         !.calls = <<GeocodeCall(inputs)>>]

\* the workflow throws err and no handler catches it: no response is sent
FailUnanswered(rq, reply, err) ==
    [rq EXCEPT !.pc = "done", !.replies = Append(@, reply), !.error = err]

\* the workflow throws err: the handler's catch answers with the failure envelope
Fail(rq, reply, err) ==
    [rq EXCEPT !.pc = "done", !.replies = Append(@, reply), !.error = err,
               !.responses = Append(@, FailureResponse(err))]

\* the geocode call returned and the list is not checked: reading the first
\* element of an empty list throws the TypeError
AfterGeocodeUnchecked(rq, reply) ==
    IF reply.kind \in {"http", "timeout"} THEN Fail(rq, reply, AxiosError(reply))
    ELSE IF reply.kind = "nodata" \/ Len(reply.data) = 0
         THEN Fail(rq, reply, TypeError)
         ELSE [rq EXCEPT !.pc = "locator", !.replies = Append(@, reply),
                         !.calls = Append(@, LocatorCall(reply.data[1]))]

\* the geocode call returned: check the list, then call the locator
AfterGeocode(rq, reply) ==
    IF reply.kind \in {"http", "timeout"} THEN Fail(rq, reply, AxiosError(reply))
    ELSE IF reply.kind = "nodata" \/ Len(reply.data) = 0
         THEN Fail(rq, reply, ZipNotFound)
         ELSE [rq EXCEPT !.pc = "locator", !.replies = Append(@, reply),
                         !.calls = Append(@, LocatorCall(reply.data[1]))]

\* the locator call returned: take the first warehouse, then call the search
AfterLocator(rq, reply) ==
    IF reply.kind \in {"http", "timeout"} THEN Fail(rq, reply, AxiosError(reply))
    ELSE IF reply.kind = "nolist" \/ Len(reply.data) = 0
         THEN Fail(rq, reply, NoWarehousesFound)
         ELSE IF Len(reply.data[1].name) = 0
              THEN Fail(rq, reply, TypeError)
              ELSE [rq EXCEPT !.pc = "search", !.replies = Append(@, reply),
                              !.warehouse = LocatedWarehouse(reply.data[1]),
                              !.calls = Append(@, SearchCall(rq.inputs,
                                            LocatedWarehouse(reply.data[1])))]

\* the search call returned: map the documents and answer
AfterSearch(rq, reply) ==
    IF reply.kind \in {"http", "timeout"} THEN Fail(rq, reply, AxiosError(reply))
    ELSE IF reply.kind = "malformed" THEN Fail(rq, reply, TypeError)
         ELSE [rq EXCEPT !.pc = "done", !.replies = Append(@, reply),
                         !.responses = Append(@, SuccessResponse(rq.warehouse,
                                                     MapDocs(reply.data)))]

-----------------------------------------------------------------------------
(* What the clients and the upstream services send *)

Absent == [keyword |-> Undef, zipCode |-> Undef, limit |-> Undef, warehouseId |-> Undef]

\* the query string of a GET carrying the supplied values: every value is text
QueryOf(supplied) ==
    [f \in Fields |->
        IF supplied[f].t = "number" THEN Str(Decimal(supplied[f].n)) ELSE supplied[f]]

\* the JSON body of a POST carrying the supplied values: numbers stay numbers
BodyOf(supplied) == supplied

OkReply(data) == [kind |-> "ok", body |-> "", data |-> data]

OtherReply(kind) ==
    [kind |-> kind, body |-> IF kind = "http" THEN "<upstream body>" ELSE "",
     data |-> << >>]

Coord1 == [latitude |-> "34.1", longitude |-> "-118.4"]

Warehouse1 ==
    [warehouseId |-> Str(<<"123">>), name |-> <<[value |-> Str(<<"Test Store">>)]>>,
     address |-> [city |-> Str(<<"Beverly Hills">>), territory |-> Str(<<"CA">>)]]

Warehouse2 ==
    [warehouseId |-> Str(<<"456">>),
     name |-> <<[value |-> Str(<<"Other Store">>)], [value |-> Str(<<"Autre">>)]>>,
     address |-> [city |-> Str(<<"Reno">>), territory |-> Str(<<"NV">>)]]

\* a warehouse whose list of names is empty
WarehouseNoName == [Warehouse1 EXCEPT !.name = << >>]

Doc1 ==
    [item_product_name |-> "Apple Juice", item_location_pricing_salePrice |-> Num(5),
     item_location_availability |-> "in stock",
     item_program_eligibility |-> <<"InWarehouse">>, item_partnumber |-> "1001"]

Doc2 ==
    [item_product_name |-> "Orange Juice", item_location_pricing_salePrice |-> Null,
     item_location_availability |-> "out of stock",
     item_program_eligibility |-> <<"InWarehouse", "2DayDelivery">>,
     item_partnumber |-> "1002"]

\* the sequences over S of length at most n
RECURSIVE SeqsUpTo(_, _)
SeqsUpTo(S, n) ==
    IF n = 0 THEN {<< >>}
    ELSE SeqsUpTo(S, n - 1) \cup
         {Append(q, x) : q \in {p \in SeqsUpTo(S, n - 1) : Len(p) = n - 1}, x \in S}

GeocodeReplies ==
    {OkReply(<< >>), OkReply(<<Coord1>>), OtherReply("nodata"), OtherReply("http"),
     OtherReply("timeout")}

LocatorReplies ==
    {OkReply(<< >>), OkReply(<<Warehouse2, Warehouse1>>), OkReply(<<WarehouseNoName>>),
     OtherReply("nolist"), OtherReply("http"), OtherReply("timeout")}

SearchReplies ==
    {OkReply(docs) : docs \in SeqsUpTo({Doc1, Doc2}, MaxDocs)} \cup
    {OtherReply("malformed"), OtherReply("http"), OtherReply("timeout")}

\* the values the requests of the sequential specification supply
Supplied ==
    {[keyword |-> who[1], zipCode |-> who[2], limit |-> lim, warehouseId |-> wid] :
        who \in {<<Undef, Undef>>, <<Str(<<"milk">>), Str(<<"10001">>)>>},
        lim \in {Undef, Str(<<"x">>)} \cup {Num(k) : k \in 0..MaxLimit},
        wid \in {Undef, Str(<< >>), Str(<<"847">>), Num(7)}}

\* the bodies the sequential specification posts to /api/config
ConfigBodies ==
    {[Absent EXCEPT !.limit = Num(10)],
     [Absent EXCEPT !.warehouseId = Str(<<"112">>)],
     [Absent EXCEPT !.keyword = Str(<<"tea">>), !.zipCode = Str(<< >>),
                    !.limit = Num(0)]}

\* the same for the specification of concurrent requests
ConcSupplied == {Absent, [Absent EXCEPT !.warehouseId = Str(<<"847">>)]}

ConcConfigBodies ==
    {[Absent EXCEPT !.keyword = Str(<<"tea">>), !.warehouseId = Str(<<"112">>)]}

ConcGeocodeReplies == {OkReply(<< >>), OkReply(<<Coord1>>)}

ConcLocatorReplies == {OkReply(<<Warehouse2, Warehouse1>>)}

ConcSearchReplies == {OkReply(<<Doc1>>), OtherReply("timeout")}


\* what the specification of the merge supplies: every field absent, empty or set,
\* the limit a number or a text that is no number
LimitChars == {"0", "1", "x", "-"}

MergeSupplied ==
    {[keyword |-> kw, zipCode |-> zip, limit |-> lim, warehouseId |-> wid] :
        kw \in {Undef, Str(<< >>), Str(<<"milk">>)},
        zip \in {Undef, Str(<<"10001">>)},
        lim \in {Undef} \cup {Num(k) : k \in 0..MaxLimit}
                \cup {Str(t) : t \in {u \in SeqsUpTo(LimitChars, MaxTextLen) :
                                           ParseInt(u) = NaN}},
        wid \in {Undef, Str(<< >>), Str(<<"847">>)}}

MergeConfigBodies ==
    {[Absent EXCEPT !.limit = Num(10), !.warehouseId = Str(<<"112">>)]}

-----------------------------------------------------------------------------
(* The handlers *)

\* the defaults a whole update of cfg with body leads to
UpdateTarget(cfg, body) ==
    [f \in Fields |-> IF Truthy(body[f]) THEN body[f] ELSE cfg[f]]

\* a request supplying raw reads, among the fields it leaves to the defaults, one
\* the running update has not written yet and one it has written already
TornRead(raw) ==
    /\ cfgPc # 0
    /\ LET after == UpdateTarget(cfgBefore, cfgBody)
       IN  \E f, g \in Fields :
              /\ ~Truthy(raw[f]) /\ ~Truthy(raw[g])
              /\ cfgBefore[f] # after[f] /\ globalConfig[f] = cfgBefore[f]
              /\ cfgBefore[g] # after[g] /\ globalConfig[g] = after[g]

Slots == 1..NumReqs

Init ==
    /\ globalConfig = InitConfig
    /\ cfgPc = 0
    /\ cfgBody = Absent
    /\ cfgBefore = InitConfig
    /\ cfgResp = << >>
    /\ req = [r \in Slots |-> IdleReq]
    /\ probe = Absent

InitMerge ==
    /\ globalConfig = InitConfig
    /\ cfgPc = 0
    /\ cfgBody = Absent
    /\ cfgBefore = InitConfig
    /\ cfgResp = << >>
    /\ req = [r \in Slots |-> IdleReq]
    /\ probe \in MergeSupplied

\* app.get('/api/costco'): merge, then runWorkflow up to its first await
GetRequest(r, query) ==
    /\ EventLoopIdle
    /\ req[r].pc \in {"idle", "done"}
    /\ req' = [req EXCEPT ![r] =
                 [StartWorkflow(MergeGet(query, globalConfig))
                    EXCEPT !.torn = TornRead(query), !.seenCfg = globalConfig]]
    /\ UNCHANGED <<globalConfig, cfgPc, cfgBody, cfgBefore, cfgResp, probe>>

\* app.post('/api/costco'): merge, then runWorkflow up to its first await
PostRequest(r, body) ==
    /\ EventLoopIdle
    /\ req[r].pc \in {"idle", "done"}
    /\ req' = [req EXCEPT ![r] =
                 [StartWorkflow(MergePost(body, globalConfig))
                    EXCEPT !.torn = TornRead(body), !.seenCfg = globalConfig]]
    /\ UNCHANGED <<globalConfig, cfgPc, cfgBody, cfgBefore, cfgResp, probe>>

GeocodeReturns(r, reply) ==
    /\ EventLoopIdle
    /\ req[r].pc = "geocode"
    /\ req' = [req EXCEPT ![r] = AfterGeocode(@, reply)]
    /\ UNCHANGED <<globalConfig, cfgPc, cfgBody, cfgBefore, cfgResp, probe>>

LocatorReturns(r, reply) ==
    /\ EventLoopIdle
    /\ req[r].pc = "locator"
    /\ req' = [req EXCEPT ![r] = AfterLocator(@, reply)]
    /\ UNCHANGED <<globalConfig, cfgPc, cfgBody, cfgBefore, cfgResp, probe>>

SearchReturns(r, reply) ==
    /\ EventLoopIdle
    /\ req[r].pc = "search"
    /\ req' = [req EXCEPT ![r] = AfterSearch(@, reply)]
    /\ UNCHANGED <<globalConfig, cfgPc, cfgBody, cfgBefore, cfgResp, probe>>

\* app.post('/api/config') is called and runs its first statement
ConfigStart(body) ==
    /\ cfgPc = 0
    /\ cfgPc' = 1
    /\ cfgBody' = body
    /\ cfgBefore' = globalConfig
    /\ globalConfig' = ConfigWrite(globalConfig, body, FieldOrder[1])
    /\ UNCHANGED <<cfgResp, req, probe>>

\* its next conditional write
ConfigStep ==
    /\ cfgPc \in 1..(Len(FieldOrder) - 1)
    /\ cfgPc' = cfgPc + 1
    /\ globalConfig' = ConfigWrite(globalConfig, cfgBody, FieldOrder[cfgPc + 1])
    /\ UNCHANGED <<cfgBody, cfgBefore, cfgResp, req, probe>>

\* its res.json: the handler returns
ConfigRespond ==
    /\ cfgPc = Len(FieldOrder)
    /\ cfgPc' = 0
    /\ cfgResp' = <<ConfigResponse(globalConfig)>>
    /\ cfgBody' = Absent
    /\ cfgBefore' = globalConfig
    /\ UNCHANGED <<globalConfig, req, probe>>

\* one request at a time, every input and every reply
Next ==
    \/ \E s \in Supplied : GetRequest(1, QueryOf(s))
    \/ \E s \in Supplied : PostRequest(1, BodyOf(s))
    \/ \E reply \in GeocodeReplies : GeocodeReturns(1, reply)
    \/ \E reply \in LocatorReplies : LocatorReturns(1, reply)
    \/ \E reply \in SearchReplies : SearchReturns(1, reply)
    \/ \E body \in ConfigBodies : ConfigStart(body)
    \/ ConfigStep
    \/ ConfigRespond

Spec == Init /\ [][Next]_vars

\* requests in flight together with updates of the defaults
NextConc ==
    \/ \E r \in Slots, s \in ConcSupplied : GetRequest(r, QueryOf(s))
    \/ \E r \in Slots, s \in ConcSupplied : PostRequest(r, BodyOf(s))
    \/ \E r \in Slots, reply \in ConcGeocodeReplies : GeocodeReturns(r, reply)
    \/ \E r \in Slots, reply \in ConcLocatorReplies : LocatorReturns(r, reply)
    \/ \E r \in Slots, reply \in ConcSearchReplies : SearchReturns(r, reply)
    \/ \E body \in ConcConfigBodies : ConfigStart(body)
    \/ ConfigStep
    \/ ConfigRespond

SpecConc == Init /\ [][NextConc]_vars

\* the same supplied values sent once by GET and once by POST
NextMerge ==
    \/ GetRequest(1, QueryOf(probe))
    \/ PostRequest(2, BodyOf(probe))
    \/ \E body \in MergeConfigBodies : ConfigStart(body)
    \/ ConfigStep
    \/ ConfigRespond

SpecMerge == InitMerge /\ [][NextMerge]_vars

-----------------------------------------------------------------------------
(* The claims *)

\* the APIs a request has called, in order
Apis(rq) == [i \in 1..Len(rq.calls) |-> rq.calls[i].api]

IsPrefix(p, q) == Len(p) <= Len(q) /\ \A i \in 1..Len(p) : p[i] = q[i]

Succeeded(rq) ==
    rq.pc = "done" /\ Len(rq.responses) > 0 /\ rq.responses[1].body.success

\* C1: a request whose merged warehouseId is non-empty resolves its warehouse to
\* {id: warehouseId, name: "Store " + warehouseId, city: "Unknown", state:
\* "Unknown"} and calls neither the geocoding service nor the warehouse locator:
\* its only call is the search
ExplicitIdSkipsLookup ==
    \A r \in Slots :
        (req[r].pc # "idle" /\ Truthy(req[r].inputs.warehouseId)) =>
            LET placeholder ==
                    [id |-> req[r].inputs.warehouseId,
                     name |-> Str(<<"Store ">> \o Template(req[r].inputs.warehouseId)),
                     city |-> Str(<<"Unknown">>), state |-> Str(<<"Unknown">>)]
            IN  /\ req[r].warehouse = placeholder
                /\ Apis(req[r]) = <<"search">>
                /\ Succeeded(req[r]) =>
                      req[r].responses[1].body.outputs.warehouse = placeholder

ExplicitIdWitness ==
    \E r \in Slots :
        /\ Succeeded(req[r])
        /\ req[r].inputs.warehouseId = Str(<<"847">>)
        /\ req[r].seenCfg.warehouseId = Null
        /\ Len(req[r].replies) = 1

\* C2: a request resolved without a warehouseId calls geocode, then the locator,
\* then the search, each only after the one before returned a usable answer; an
\* empty geocode list fails the request with the not-found error before any
\* locator or search call, and an empty warehouse list fails it with the
\* not-found error before any search call
LookupOrder ==
    \A r \in Slots :
        (req[r].pc # "idle" /\ ~Truthy(req[r].inputs.warehouseId)) =>
            /\ IsPrefix(Apis(req[r]), <<"geocode", "locator", "search">>)
            /\ Len(req[r].calls) >= 1
            /\ Len(req[r].calls) <= Len(req[r].replies) + 1
            /\ \A i \in 1..(Len(req[r].calls) - 1) :
                  req[r].replies[i].kind = "ok" /\ Len(req[r].replies[i].data) > 0
            /\ (Len(req[r].replies) >= 1 /\ req[r].replies[1] = OkReply(<< >>)) =>
                  /\ Apis(req[r]) = <<"geocode">>
                  /\ req[r].pc = "done"
                  /\ req[r].error = PlainError("Zip code not found")
                  /\ ~req[r].responses[1].body.success
            /\ (Len(req[r].replies) >= 2 /\ req[r].replies[2] = OkReply(<< >>)) =>
                  /\ Apis(req[r]) = <<"geocode", "locator">>
                  /\ req[r].pc = "done"
                  /\ req[r].error = PlainError("No warehouses found")
                  /\ ~req[r].responses[1].body.success

LookupOrderWitness ==
    \E r \in Slots :
        /\ Succeeded(req[r])
        /\ Apis(req[r]) = <<"geocode", "locator", "search">>
        /\ Len(req[r].replies) = 3

\* C3: in a successful response outputs.items is never longer than the request's
\* resultLimit, whatever the search backend returned
ItemsWithinLimit ==
    \A r \in Slots :
        (Succeeded(req[r]) /\ req[r].inputs.limit.t = "number") =>
            Len(req[r].responses[1].body.outputs.items) <= req[r].inputs.limit.n

ItemsBeyondLimitWitness ==
    \E r \in Slots :
        /\ Succeeded(req[r])
        /\ req[r].inputs.limit = Num(1)
        /\ req[r].calls[Len(req[r].calls)].params.rows = Num(1)
        /\ Len(req[r].responses[1].body.outputs.items) = 2

\* C4: the search query asks for exactly resultLimit rows, the merged limit
\* whatever its value, starts at 0 and scopes whloc and loc to "<id>-wh"
RowsAsRequested ==
    \A r \in Slots :
        \A i \in 1..Len(req[r].calls) :
            req[r].calls[i].api = "search" =>
                /\ req[r].calls[i].params.rows = req[r].inputs.limit
                /\ req[r].calls[i].params.start = 0
                /\ req[r].calls[i].params.whloc =
                      Str(Template(req[r].warehouse.id) \o <<"-wh">>)
                /\ req[r].calls[i].params.loc =
                      Str(Template(req[r].warehouse.id) \o <<"-wh">>)

\* C5: the same supplied values, merged with the same defaults, give the GET
\* handler and the POST handler the same inputs
MergeEquivalence ==
    (/\ req[1].pc # "idle"
     /\ req[2].pc # "idle"
     /\ req[1].seenCfg = req[2].seenCfg) => req[1].inputs = req[2].inputs


\* a reply that makes the workflow throw: a failed call, an empty or missing
\* list of the lookup, a warehouse without a name, a malformed search response
Raises(rq) ==
    \E i \in 1..Len(rq.replies) :
        \/ rq.replies[i].kind # "ok"
        \/ rq.calls[i].api \in {"geocode", "locator"} /\ Len(rq.replies[i].data) = 0
        \/ /\ rq.calls[i].api = "locator"
           /\ Len(rq.replies[i].data) > 0
           /\ Len(rq.replies[i].data[1].name) = 0

EmptyGeocode(rq) ==
    /\ Len(rq.replies) >= 1
    /\ rq.calls[1].api = "geocode"
    /\ rq.replies[1] = OkReply(<< >>)

\* C6 as stated: a request whose workflow raises an error gets exactly one
\* response, of status 500 and body {success: false, error: <message>, duration},
\* and the message of an empty geocode list is "zip code not found"
FailureEnvelopeAsStated ==
    \A r \in Slots :
        Raises(req[r]) =>
            /\ Len(req[r].responses) = 1
            /\ req[r].responses[1].status = 500
            /\ req[r].responses[1].body =
                  [success |-> FALSE, error |-> req[r].error.message,
                   duration |-> Duration]
            /\ EmptyGeocode(req[r]) =>
                  req[r].responses[1].body.error = "zip code not found"

\* C6 amended: a request whose workflow raises an error gets exactly one
\* response, of status 500, never a success envelope, whose body holds success:
\* false, error: <message> and duration, and details (the upstream body) as well
\* exactly when an upstream call answered outside 2xx; the message of an empty
\* geocode list is "Zip code not found"
FailureEnvelope ==
    \A r \in Slots :
        Raises(req[r]) =>
            /\ req[r].pc = "done"
            /\ req[r].error # NoError
            /\ Len(req[r].responses) = 1
            /\ req[r].responses[1].status = 500
            /\ req[r].responses[1].body.success = FALSE
            /\ req[r].responses[1].body.error = req[r].error.message
            /\ req[r].responses[1].body.duration = Duration
            /\ DOMAIN req[r].responses[1].body =
                  {"success", "error", "duration"} \cup
                  (IF \E i \in 1..Len(req[r].replies) : req[r].replies[i].kind = "http"
                   THEN {"details"} ELSE {})
            /\ EmptyGeocode(req[r]) =>
                  req[r].responses[1].body.error = "Zip code not found"

FailureEnvelopeWitness ==
    \E r \in Slots :
        /\ EmptyGeocode(req[r])
        /\ req[r].pc = "done"
        /\ Len(req[r].responses) = 1
        /\ req[r].responses[1].status = 500

\* C7: an update of the defaults overwrites only fields its body supplies, with
\* the body's value, and leaves the others as they were; its response carries the
\* resulting defaults; a step of a search request never changes the defaults
ConfigFrame ==
    [][/\ \A f \in Fields :
              globalConfig'[f] # globalConfig[f] =>
                  /\ cfgPc' # 0
                  /\ cfgBody'[f] # Undef
                  /\ globalConfig'[f] = cfgBody'[f]
       /\ (cfgPc # 0 /\ cfgPc' = 0) =>
              /\ cfgResp' = <<[success |-> TRUE, config |-> globalConfig']>>
              /\ \A f \in Fields :
                    cfgBody[f] = Undef => globalConfig'[f] = cfgBefore[f]
       /\ req' # req => globalConfig' = globalConfig]_vars

ConfigFrameWitness ==
    /\ cfgPc = 0
    /\ cfgResp = <<[success |-> TRUE, config |-> globalConfig]>>
    /\ globalConfig = [InitConfig EXCEPT !.limit = Num(10)]

\* the warehouse the lookup path must produce and the item of one document
FirstWarehouse(rq) ==
    [id |-> rq.replies[2].data[1].warehouseId,
     name |-> rq.replies[2].data[1].name[1].value,
     city |-> rq.replies[2].data[1].address.city,
     state |-> rq.replies[2].data[1].address.territory]

ReturnedDocs(rq) == rq.replies[Len(rq.replies)].data

\* C8 as stated: outputs.warehouse is taken from the first warehouse of the
\* locator and outputs.items holds one item per document, in upstream order, with
\* the fields name, price, availability, deliveryEligibility and partNumber
OutputsAsStated ==
    \A r \in Slots :
        Succeeded(req[r]) =>
            LET out == req[r].responses[1].body.outputs
                docs == ReturnedDocs(req[r])
            IN  /\ Len(req[r].replies) = 3 => out.warehouse = FirstWarehouse(req[r])
                /\ Len(out.items) = Len(docs)
                /\ \A i \in 1..Len(docs) :
                      /\ DOMAIN out.items[i] =
                            {"name", "price", "availability", "deliveryEligibility",
                             "partNumber"}
                      /\ out.items[i].name = docs[i].item_product_name
                      /\ out.items[i].price = docs[i].item_location_pricing_salePrice
                      /\ out.items[i].availability = docs[i].item_location_availability
                      /\ out.items[i].deliveryEligibility =
                            docs[i].item_program_eligibility
                      /\ out.items[i].partNumber = docs[i].item_partnumber

\* C8 amended: the same, the field holding item_program_eligibility being named
\* deliveryOptions
OutputsProjection ==
    \A r \in Slots :
        Succeeded(req[r]) =>
            LET out == req[r].responses[1].body.outputs
                docs == ReturnedDocs(req[r])
            IN  /\ Len(req[r].replies) = 3 => out.warehouse = FirstWarehouse(req[r])
                /\ Len(out.items) = Len(docs)
                /\ \A i \in 1..Len(docs) :
                      /\ DOMAIN out.items[i] =
                            {"name", "price", "availability", "deliveryOptions",
                             "partNumber"}
                      /\ out.items[i].name = docs[i].item_product_name
                      /\ out.items[i].price = docs[i].item_location_pricing_salePrice
                      /\ out.items[i].availability = docs[i].item_location_availability
                      /\ out.items[i].deliveryOptions = docs[i].item_program_eligibility
                      /\ out.items[i].partNumber = docs[i].item_partnumber

OutputsWitness ==
    \E r \in Slots :
        /\ Succeeded(req[r])
        /\ Len(req[r].replies) = 3
        /\ req[r].responses[1].body.outputs.warehouse.id = Str(<<"456">>)
        /\ ReturnedDocs(req[r]) = <<Doc2, Doc1>>


\* an update is in flight and has written some of its fields but not all
MidUpdate ==
    /\ cfgPc # 0
    /\ globalConfig # cfgBefore
    /\ globalConfig # UpdateTarget(cfgBefore, cfgBody)

\* C9 as stated: while an update supplying several fields is in flight a search
\* request arriving (a slot being free for it) can read the defaults, and its
\* merged inputs then mix fields of before the update with fields of after it
TornReadPossible ==
    (MidUpdate /\ \E r \in Slots : req[r].pc \in {"idle", "done"}) =>
        ENABLED (\E r \in Slots :
                    /\ \/ GetRequest(r, QueryOf(Absent))
                       \/ PostRequest(r, BodyOf(Absent))
                    /\ req'[r].torn)

\* C9 amended: no search request observes a torn default set: the writes of an
\* update run to completion before any search handler runs, so the merged inputs
\* of every request take their defaults from before the update or from after it
NoTornRead ==
    \A r \in Slots :
        /\ ~req[r].torn
        /\ MidUpdate => ~ENABLED (\E s \in ConcSupplied :
                                     \/ GetRequest(r, QueryOf(s))
                                     \/ PostRequest(r, BodyOf(s)))

NoTornReadWitness ==
    /\ MidUpdate
    /\ \E r \in Slots :
          /\ req[r].pc \in {"geocode", "locator", "search"}
          /\ req[r].seenCfg = cfgBefore
    /\ \E r \in Slots : req[r].pc \in {"idle", "done"}

\* a step in which request r issues a call to the geocoding service or to the
\* warehouse locator
IssuesLookupCall(r) ==
    /\ req'[r] # req[r]
    /\ req'[r].pc \in {"geocode", "locator"}

=============================================================================
